---- MODULE Spec2Model ----
(***************************************************************************)
(* Model of the two backend adapters of the DLR inference runtime:         *)
(*   - TreeliteModel  (src/src/dlr_treelite.cc)                            *)
(*   - HexagonModel   (src/src/dlr_hexagon/dlr_hexagon.cc)                 *)
(*                                                                         *)
(* A failed CHECK / LOG(FATAL) is modelled as the call ending with result  *)
(* "fatal" and the object staying reachable: the repository's tests wrap   *)
(* calls in EXPECT_NO_THROW and try/catch (dlr_treelite_test.cc:72-81), so *)
(* the fatal error is an exception the caller can catch, and whatever the  *)
(* method had already written before the failing check stays written.      *)
(***************************************************************************)
EXTENDS Integers, Sequences, FiniteSets, TLC

VARIABLES
  \* ---- TreeliteModel fields
  treelite_input,               \* std::unique_ptr<TreeliteInput>: <<>> is nullptr, <<rec>> otherwise
  treelite_output,              \* std::vector<float> treelite_output_
  treelite_num_feature,         \* size_t
  treelite_output_buffer_size,  \* size_t: num_output_class
  treelite_output_size,         \* size_t: discovered output width
  \* ---- observation of the Treelite calls
  t_dense,                      \* the dense input of the last SetInput that reached CSR construction
  t_fresh,                      \* "none" | "fresh" | "stale": is treelite_output_ the prediction of the current input
  t_nset,                       \* how many SetInput calls have succeeded: 0, 1, or 2 for two or more
  t_last,                       \* the last call and what it returned
  \* ---- HexagonModel fields
  input_tensors_spec,           \* std::vector<HexagonTensorSpec> input_tensors_spec_
  output_tensors_spec,          \* std::vector<HexagonTensorSpec> output_tensors_spec_
  num_inputs,                   \* int num_inputs_
  num_outputs,                  \* int num_outputs_
  input_,                       \* the backend's input buffer, as bytes
  output_,                      \* the backend's output buffer, as bytes
  graph_id,                     \* int graph_id_
  log_buf,                      \* char* log_buf_: "null" or "allocated"
  symbols,                      \* the entry points whose function pointer is resolved
  input_names,                  \* std::vector<std::string> input_names_
  h_object,                     \* "none" | "ready" | "destroyed": the adapter object
  h_calls,                      \* what the last construction or destruction called, in order
  h_backend,                    \* the backend's answers to the input and output spec queries
  h_last,                       \* the last call and what it returned
  \* ---- HexagonModel::InitModelArtifact
  model_artifact,               \* model_artifact_ of the adapter under construction
  adsp_library_path,            \* the process's ADSP_LIBRARY_PATH
  a_last                        \* the last construction's directory, listing and result

tvars == <<treelite_input, treelite_output, treelite_num_feature,
           treelite_output_buffer_size, treelite_output_size,
           t_dense, t_fresh, t_nset, t_last>>

hvars == <<input_tensors_spec, output_tensors_spec, num_inputs, num_outputs,
           input_, output_, graph_id, log_buf, symbols, input_names,
           h_object, h_calls, h_backend, h_last>>

avars == <<model_artifact, adsp_library_path, a_last>>

vars == <<tvars, hvars, avars>>

----------------------------------------------------------------------------
\* Bounds of the model.
MaxRows == 2        \* rows of a dense input: shape[0] in 0..MaxRows
NumFeature == 2     \* feature count the loaded model declares
MaxCells == 4       \* cells of a dense input buffer: shape[0] * shape[1] <= MaxCells
MaxClass == 2       \* output groups the loaded model declares: 1..MaxClass
SizeTBits == 16     \* width of size_t in the model (scaled down from 64)
Uint32Bits == 8     \* width of uint32_t in the model (scaled down from 32)

\* float values of an input buffer: NaN and two ordinary values
FloatVals == {"nan", "x", "y"}

isnan(v) == v = "nan"

\* static_cast<size_t>(int64_t)
ToSizeT(x) == x % (2 ^ SizeTBits)

\* static_cast<uint32_t>(int64_t)
ToUint32(x) == x % (2 ^ Uint32Bits)

----------------------------------------------------------------------------
\* TreeliteInput: the CSR matrix. `new TreeliteInput` has empty vectors; num_row,
\* num_col are written at lines 125-126 and handle by the backend at 129-133.
NewTreeliteInput_keep(old) ==
  IF old = <<>> THEN [data |-> <<>>, col_ind |-> <<>>, row_ptr |-> <<>>,
                      num_row |-> 0, num_col |-> 0, handle |-> "unset"]
  ELSE [old[1] EXCEPT !.handle = "unset"]

NewTreeliteInput(old) ==
  [data |-> <<>>, col_ind |-> <<>>, row_ptr |-> <<>>,
   num_row |-> 0, num_col |-> 0, handle |-> "unset"]

\* the inner loop of SetInput (lines 111-116); input_f is 0-based in the code
RECURSIVE ColLoop_noNaNTest(_, _, _, _, _)
ColLoop_noNaNTest(ti, input_f, i, j, num_col) ==
  IF j >= num_col THEN ti
  ELSE LET v == input_f[i * num_col + j + 1]
           nxt == [ti EXCEPT !.data = Append(@, v), !.col_ind = Append(@, j)]
       IN ColLoop_noNaNTest(nxt, input_f, i, j + 1, num_col)

RECURSIVE ColLoop(_, _, _, _, _)
ColLoop(ti, input_f, i, j, num_col) ==
  IF j >= num_col THEN ti
  ELSE LET v == input_f[i * num_col + j + 1]
           nxt == IF ~isnan(v)
                  THEN [ti EXCEPT !.data = Append(@, v), !.col_ind = Append(@, j)]
                  ELSE ti
       IN ColLoop(nxt, input_f, i, j + 1, num_col)

\* the outer loop of SetInput (lines 110-118)
RECURSIVE RowLoop(_, _, _, _, _)
RowLoop(ti, input_f, i, batch_size, num_col) ==
  IF i >= batch_size THEN ti
  ELSE LET filled == ColLoop(ti, input_f, i, 0, num_col)
           closed == [filled EXCEPT !.row_ptr = Append(@, Len(filled.data))]
       IN RowLoop(closed, input_f, i + 1, batch_size, num_col)

\* lines 104-118: fresh TreeliteInput, row_ptr starts with 0, then the loops
BuildCSR(old, input_f, batch_size, num_col) ==
  LET fresh == NewTreeliteInput(old)
      start == [fresh EXCEPT !.row_ptr = Append(@, 0)]
  IN RowLoop(start, input_f, 0, batch_size, num_col)

\* the post conditions checked at lines 120-122
CSRPostConditions(ti, batch_size) ==
  /\ Len(ti.data) = Len(ti.col_ind)
  /\ Len(ti.data) = ti.row_ptr[Len(ti.row_ptr)]
  /\ Len(ti.row_ptr) = batch_size + 1

----------------------------------------------------------------------------
\* Elements of treelite_output_: a float the backend wrote as a prediction, the
\* 0.0f std::vector::resize fills new elements with, or whatever lies beyond
\* the vector's end.
PredVal(v) == [tag |-> "pred", v |-> v]
ZeroVal == [tag |-> "zero", v |-> 0]
GarbageVal == [tag |-> "garbage", v |-> 0]

\* std::vector<float>::resize(n): keeps the first n elements, fills with 0.0f
Resize(vec, n) == [i \in 1..n |-> IF i <= Len(vec) THEN vec[i] ELSE ZeroVal]

\* TreelitePredictorPredictBatch (called at lines 176-180) on a registered
\* handle: writes num_row * treelite_output_size_ results at the front of the
\* buffer. The loaded model stands for any deterministic function of a row;
\* here a row's prediction is the number of features present in it, for every
\* output column. With a handle the backend never registered the call reads an
\* indeterminate pointer: what it writes is garbage.
PredictBatch(ti, out, W) ==
  [i \in 1..Len(out) |->
     IF i <= ti.num_row * W
     THEN IF ti.handle = "registered"
          THEN LET r == ((i - 1) \div W) + 1
               IN PredVal(ti.row_ptr[r + 1] - ti.row_ptr[r])
          ELSE GarbageVal
     ELSE out[i]]

\* what a call leaves for the caller to observe
Last(op, result, dim, shape, rc, out, shape_out, predicted) ==
  [op |-> op, result |-> result, dim |-> dim, shape |-> shape, rc |-> rc,
   out |-> out, shape_out |-> shape_out, predicted |-> predicted]

NoDense == [shape |-> <<0, 0>>, buf |-> <<>>]

\* State after TreeliteModel's construction (SetupTreeliteModule, lines 30-69):
\* treelite_input_ is reset to nullptr (49), the output vector is empty (57),
\* the buffer size is the output group count (56) and the discovered output
\* width is at most that (CHECK_LE, 68).
TreeliteInit ==
  /\ treelite_input = <<>>
  /\ treelite_output = <<>>
  /\ treelite_num_feature = NumFeature
  /\ treelite_output_buffer_size \in 1..MaxClass
  /\ treelite_output_size \in 1..treelite_output_buffer_size
  /\ t_dense = NoDense
  /\ t_fresh = "none"
  /\ t_nset = 0
  /\ t_last = Last("construct", "ok", 0, <<>>, 0, <<>>, <<>>, FALSE)

TreeliteConfig == <<treelite_num_feature, treelite_output_buffer_size, treelite_output_size>>

\* the column check of SetInput (lines 97-100): shape[1] is compared as a size_t
ColumnsOk_lt(shape1, num_feature) == ToSizeT(shape1) < num_feature

ColumnsOk(shape1, num_feature) == ToSizeT(shape1) <= num_feature

\* TreeliteModel::SetInput(name, shape, input, dim), lines 91-135. rc is what
\* TreeliteAssembleSparseBatch returns.
SetInput(shape, input, dim, rc) ==
  /\ UNCHANGED <<treelite_output, TreeliteConfig>>
  /\ IF dim # 2
     THEN /\ t_last' = Last("SetInput", "fatal", dim, shape, rc, <<>>, <<>>, FALSE)
          /\ UNCHANGED <<treelite_input, t_dense, t_fresh, t_nset>>
     ELSE IF ~ColumnsOk(shape[2], treelite_num_feature)
     THEN /\ t_last' = Last("SetInput", "fatal", dim, shape, rc, <<>>, <<>>, FALSE)
          /\ UNCHANGED <<treelite_input, t_dense, t_fresh, t_nset>>
     ELSE LET batch_size == ToSizeT(shape[1])
              num_col == ToUint32(shape[2])
              built == BuildCSR(treelite_input, input, batch_size, num_col)
              saved == [built EXCEPT !.num_row = batch_size,
                                     !.num_col = treelite_num_feature]
          IN /\ t_dense' = [shape |-> shape, buf |-> input]
             /\ t_fresh' = IF t_fresh = "none" THEN "none" ELSE "stale"
             /\ IF ~CSRPostConditions(built, batch_size)
                THEN /\ treelite_input' = <<built>>
                     /\ UNCHANGED t_nset
                     /\ t_last' = Last("SetInput", "fatal", dim, shape, rc, <<>>, <<>>, FALSE)
                ELSE IF rc # 0
                THEN /\ treelite_input' = <<saved>>
                     /\ UNCHANGED t_nset
                     /\ t_last' = Last("SetInput", "fatal", dim, shape, rc, <<>>, <<>>, FALSE)
                ELSE /\ treelite_input' = <<[saved EXCEPT !.handle = "registered"]>>
                     /\ t_nset' = IF t_nset < 2 THEN t_nset + 1 ELSE t_nset
                     /\ t_last' = Last("SetInput", "ok", dim, shape, rc, <<>>, <<>>, FALSE)

\* TreeliteModel::GetOutputShape(index, shape), lines 141-146
GetOutputShape(index) ==
  /\ t_last' = Last("GetOutputShape", "ok", 0, <<>>, 0, <<>>,
                    << IF treelite_input # <<>> THEN treelite_input[1].num_row ELSE -1,
                       treelite_output_size >>, FALSE)
  /\ UNCHANGED <<treelite_input, treelite_output, TreeliteConfig, t_dense, t_fresh, t_nset>>

\* TreeliteModel::GetOutput(index, out), lines 148-153: memcpy of
\* num_row * treelite_output_size_ floats from treelite_output_.data(); floats
\* past the vector's end are indeterminate (oob is what the read finds there).
GetOutput(index, oob) ==
  /\ IF treelite_input = <<>>
     THEN t_last' = Last("GetOutput", "fatal", 0, <<>>, 0, <<>>, <<>>, FALSE)
     ELSE LET n == treelite_input[1].num_row * treelite_output_size
          IN t_last' = Last("GetOutput", "ok", 0, <<>>, 0,
                            [i \in 1..n |-> IF i <= Len(treelite_output)
                                            THEN treelite_output[i] ELSE oob],
                            <<>>, FALSE)
  /\ UNCHANGED <<treelite_input, treelite_output, TreeliteConfig, t_dense, t_fresh, t_nset>>

\* TreeliteModel::Run(), lines 171-181. rc is what TreelitePredictorPredictBatch
\* returns.
Run(rc) ==
  /\ UNCHANGED <<treelite_input, TreeliteConfig, t_dense, t_nset>>
  /\ IF treelite_input = <<>>
     THEN /\ t_last' = Last("Run", "fatal", 0, <<>>, rc, <<>>, <<>>, FALSE)
          /\ UNCHANGED <<treelite_output, t_fresh>>
     ELSE LET ti == treelite_input[1]
              resized == Resize(treelite_output, ti.num_row * treelite_output_buffer_size)
          IN IF rc # 0
             THEN /\ treelite_output' = resized
                  /\ t_last' = Last("Run", "fatal", 0, <<>>, rc, <<>>, <<>>, TRUE)
                  /\ UNCHANGED t_fresh
             ELSE /\ treelite_output' = PredictBatch(ti, resized, treelite_output_size)
                  /\ t_last' = Last("Run", "ok", 0, <<>>, rc, <<>>, <<>>, TRUE)
                  /\ t_fresh' = IF ti.handle = "registered" THEN "fresh" ELSE t_fresh

----------------------------------------------------------------------------
\* No Hexagon adapter and no construction in progress.
HexagonAbsent ==
  /\ input_tensors_spec = <<>> /\ output_tensors_spec = <<>>
  /\ num_inputs = 0 /\ num_outputs = 0
  /\ input_ = <<>> /\ output_ = <<>>
  /\ graph_id = 0
  /\ log_buf = "null" /\ symbols = {} /\ input_names = <<>>
  /\ h_object = "none" /\ h_calls = <<>>
  /\ h_backend = [inputs |-> <<>>, outputs |-> <<>>]
  /\ h_last = [op |-> "none"]

ArtifactAbsent ==
  /\ model_artifact = [model_file |-> <<>>, skeleton_file |-> <<>>]
  /\ adsp_library_path = <<>>
  /\ a_last = [op |-> "none"]

\* The calls a client makes.

\* every row-major dense buffer of r rows and c columns
DenseBuffers(r, c) == [1..(r * c) -> FloatVals]

\* buffers whose cells are all missing or all present
UniformBuffers(r, c) == {[i \in 1..(r * c) |-> v] : v \in {"nan", "x"}}

\* return codes of a backend call
BackendRc == {0, -1}

\* SetInput with a column count the model accepts (0..NumFeature) and every
\* buffer of shape[0] * shape[1] floats, of at most MaxCells cells
T_SetInputDense ==
  \E r \in 0..MaxRows, c \in 0..NumFeature, rc \in BackendRc :
    /\ r * c <= MaxCells
    /\ \E buf \in DenseBuffers(r, c) : SetInput(<<r, c>>, buf, 2, rc)
    /\ UNCHANGED <<hvars, avars>>

\* SetInput with a full-width input
T_SetInput ==
  \E r \in 0..MaxRows, rc \in BackendRc :
    \E buf \in UniformBuffers(r, NumFeature) :
      /\ SetInput(<<r, NumFeature>>, buf, 2, rc)
      /\ UNCHANGED <<hvars, avars>>

\* SetInput with a negative column count, or with one column too many
T_SetInputBadCols ==
  \E c \in {-1, NumFeature + 1} :
    /\ SetInput(<<1, c>>, [i \in 1..(NumFeature + 1) |-> "x"], 2, 0)
    /\ UNCHANGED <<hvars, avars>>

\* SetInput with dim other than 2
T_SetInputBadDim ==
  \E dim \in {1, 3} :
    /\ SetInput([i \in 1..dim |-> 1], <<"x">>, dim, 0)
    /\ UNCHANGED <<hvars, avars>>

T_Run == \E rc \in BackendRc : Run(rc) /\ UNCHANGED <<hvars, avars>>

T_GetOutput ==
  \E oob \in {ZeroVal, GarbageVal} : GetOutput(0, oob) /\ UNCHANGED <<hvars, avars>>

T_GetOutputShape == GetOutputShape(0) /\ UNCHANGED <<hvars, avars>>

\* SetInput alone, over every dense buffer within the bounds
NextSetInput ==
  \/ T_SetInputDense
  \/ T_SetInputBadCols
  \/ T_SetInputBadDim

\* a model with one output group: SetInput reads neither output size
SetInputInit ==
  /\ TreeliteInit /\ treelite_output_buffer_size = 1
  /\ HexagonAbsent /\ ArtifactAbsent

SpecSetInput == SetInputInit /\ [][NextSetInput]_vars

\* the adapter's life after construction
NextTreelite ==
  \/ T_SetInput
  \/ T_SetInputBadCols
  \/ T_SetInputBadDim
  \/ T_Run
  \/ T_GetOutput
  \/ T_GetOutputShape

InitTreelite == TreeliteInit /\ HexagonAbsent /\ ArtifactAbsent

SpecTreelite == InitTreelite /\ [][NextTreelite]_vars

----------------------------------------------------------------------------
\* HexagonModel.

MaxRank == 2      \* dim of a SetInput call: 0..MaxRank + 1
MaxIndex == 2     \* index of a GetOutput call: -1..MaxIndex

ByteVals == {0, 1}

\* extents of a SetInput call's shape
Extents == {1, 2}

RECURSIVE Product(_)
Product(shape) == IF shape = <<>> THEN 1 ELSE Head(shape) * Product(Tail(shape))

\* HexagonTensorSpec as GenTensorSpec fills it (lines 124-131), for a tensor of
\* one-byte elements
TensorSpec(name, shape) ==
  [name |-> name, dim |-> Len(shape), shape |-> shape,
   bytes |-> Product(shape), size |-> Product(shape)]

\* the graphs a backend can hold: what dlr_hexagon_input_spec and
\* dlr_hexagon_output_spec report for ids 0, 1, ...
HexagonGraphs ==
  { [inputs |-> <<TensorSpec("a", <<2>>)>>,
     outputs |-> <<TensorSpec("y", <<1>>)>>],
    [inputs |-> <<TensorSpec("a", <<1, 2>>)>>,
     outputs |-> <<TensorSpec("y", <<2>>), TensorSpec("z", <<1>>)>>],
    [inputs |-> <<TensorSpec("a", <<2, 1>>), TensorSpec("b", <<1>>)>>,
     outputs |-> <<TensorSpec("y", <<1, 2>>)>>],
    [inputs |-> <<TensorSpec("a", <<2, 2>>)>>,
     outputs |-> <<TensorSpec("y", <<1>>), TensorSpec("z", <<2>>)>>] }

InputNames == {"a", "b", "absent"}

\* the six entry points LoadSymbols resolves (lines 175-186), in its order
EntryPoints ==
  << "dlr_hexagon_model_init", "dlr_hexagon_model_exec", "dlr_hexagon_model_close",
     "dlr_hexagon_nn_getlog", "dlr_hexagon_input_spec", "dlr_hexagon_output_spec" >>

\* input_names_ as GenTensorSpec fills it (line 136): the specs' names in order
NamesOf(specs) == [k \in 1..Len(specs) |-> specs[k].name]

\* The backend's answer to a spec query: a status and, with status 0, a spec.
Answer(err, spec) == [err |-> err, spec |-> spec]

\* the answers of a backend holding `specs` to the ids 0, 1, ...: status 0 with
\* the spec, except at id `stop`, where it answers nonzero
AnswersOf(specs, stop) ==
  [k \in 1..Len(specs) |-> Answer(IF k - 1 = stop THEN 1 ELSE 0, specs[k])]

RECURSIVE SumBytes(_)
SumBytes(specs) == IF specs = <<>> THEN 0 ELSE Head(specs).bytes + SumBytes(Tail(specs))

\* State after HexagonModel's construction (lines 54-65): the session is live,
\* the backend has handed out its two buffers (line 82), the specs are the
\* backend's in query order (lines 107-152). The buffers are the backend's; each
\* holds the tensors the graph declares.
HexagonInit ==
  \E g \in HexagonGraphs :
    /\ input_tensors_spec = g.inputs
    /\ output_tensors_spec = g.outputs
    /\ num_inputs = Len(g.inputs)
    /\ num_outputs = Len(g.outputs)
    /\ input_ = [k \in 1..SumBytes(g.inputs) |-> 0]
    /\ output_ = [k \in 1..SumBytes(g.outputs) |-> 0]
    /\ graph_id = 1
    /\ log_buf = "allocated"
    /\ symbols = {EntryPoints[k] : k \in DOMAIN EntryPoints}
    /\ input_names = NamesOf(g.inputs)
    /\ h_object = "ready"
    /\ h_calls = <<>>
    /\ h_backend = [inputs |-> AnswersOf(g.inputs, Len(g.inputs)),
                    outputs |-> AnswersOf(g.outputs, Len(g.outputs))]
    /\ h_last = [op |-> "construct", name |-> "", index |-> 0, result |-> "ok",
                 buf |-> <<>>, out |-> <<>>, copied |-> 0, follows_set |-> FALSE]

\* what a call leaves for the caller to observe: result is "ok" or the fatal
\* message; follows_set tells a GetInput that came right after a successful
\* SetInput of the same name
HLast(op, name, index, result, buf, out, copied) ==
  [op |-> op, name |-> name, index |-> index, result |-> result,
   buf |-> buf, out |-> out, copied |-> copied,
   follows_set |-> (/\ op = "GetInput"
                    /\ h_last.op = "SetInput"
                    /\ h_last.result = "ok"
                    /\ h_last.name = name)]

Fatal(result) == result \notin {"ok", "crash"}

HexagonSchema == <<input_tensors_spec, output_tensors_spec, num_inputs, num_outputs, graph_id,
                   log_buf, symbols, input_names, h_object, h_calls, h_backend>>

\* HexagonModel::GetInputId(name), lines 154-164: the first index whose spec
\* has the name, -1 (after the fatal log) when there is none
RECURSIVE GetInputIdFrom(_, _)
GetInputIdFrom(name, i) ==
  IF ~(i < num_inputs) THEN -1
  ELSE IF input_tensors_spec[i + 1].name = name THEN i
  ELSE GetInputIdFrom(name, i + 1)

GetInputId(name) == GetInputIdFrom(name, 0)

\* std::memcpy(dst, src, n) on byte sequences
memcpy_short(dst, src, n) ==
  [k \in 1..Len(dst) |-> IF k <= n - 1 THEN src[k] ELSE dst[k]]

memcpy(dst, src, n) ==
  [k \in 1..Len(dst) |-> IF k <= n THEN src[k] ELSE dst[k]]

\* the shape check of SetInput (lines 215-218): every axis i < dim
ShapeMatches_firstAxis(shape, spec, dim) ==
  \A i \in 0..(dim - 1) : i = 0 => shape[i + 1] = spec.shape[i + 1]

ShapeMatches(shape, spec, dim) ==
  \A i \in 0..(dim - 1) : shape[i + 1] = spec.shape[i + 1]

\* HexagonModel::SetInput(name, shape, input, dim), lines 209-220
H_SetInput(name, shape, input, dim) ==
  LET index == GetInputId(name)
  IN /\ UNCHANGED <<HexagonSchema, output_>>
     /\ IF index = -1
        THEN /\ h_last' = HLast("SetInput", name, 0, "Input Tensor not found", <<>>, <<>>, 0)
             /\ UNCHANGED input_
        ELSE IF dim # input_tensors_spec[index + 1].dim
        THEN /\ h_last' = HLast("SetInput", name, 0, "Incorrect input dim", <<>>, <<>>, 0)
             /\ UNCHANGED input_
        ELSE IF ~ShapeMatches(shape, input_tensors_spec[index + 1], dim)
        THEN /\ h_last' = HLast("SetInput", name, 0, "Incorrect input shape", <<>>, <<>>, 0)
             /\ UNCHANGED input_
        ELSE /\ input_' = memcpy(input_, input, input_tensors_spec[index + 1].bytes)
             /\ h_last' = HLast("SetInput", name, 0, "ok", input, <<>>,
                                input_tensors_spec[index + 1].bytes)

\* the caller's buffer before a copy into it
Uninit(n) == [k \in 1..n |-> -1]

\* HexagonModel::GetInput(name, input), lines 222-225
H_GetInput(name) ==
  LET index == GetInputId(name)
  IN /\ UNCHANGED <<HexagonSchema, input_, output_>>
     /\ IF index = -1
        THEN h_last' = HLast("GetInput", name, 0, "Input Tensor not found", <<>>, <<>>, 0)
        ELSE LET n == input_tensors_spec[index + 1].bytes
             IN h_last' = HLast("GetInput", name, 0, "ok", <<>>,
                                memcpy(Uninit(n), input_, n), n)

\* HexagonModel::GetOutput(index, out), lines 234-237. CHECK_LT(index,
\* num_outputs_) lets a negative index through; output_tensors_spec_[index] then
\* reads before the vector's storage, so the byte count is whatever lies there
\* (wild), or the read faults.
H_GetOutput(index, wild, faults) ==
  /\ UNCHANGED <<HexagonSchema, input_, output_>>
  /\ IF ~(index < num_outputs)
     THEN h_last' = HLast("GetOutput", "", index, "Output index is out of range.", <<>>, <<>>, 0)
     ELSE IF index < 0
     THEN IF faults
          THEN h_last' = HLast("GetOutput", "", index, "crash", <<>>, <<>>, 0)
          ELSE h_last' = HLast("GetOutput", "", index, "ok", <<>>,
                               memcpy(Uninit(wild), output_, wild), wild)
     ELSE LET n == output_tensors_spec[index + 1].bytes
          IN h_last' = HLast("GetOutput", "", index, "ok", <<>>,
                             memcpy(Uninit(n), output_, n), n)

\* HexagonModel::Run(), lines 250-257: err and the bytes the backend leaves in
\* its output buffer are the backend's
H_Run(err, written) ==
  /\ UNCHANGED <<HexagonSchema, input_>>
  /\ output_' = written
  /\ h_last' = HLast("Run", "", 0, IF err # 0 THEN "Failed to exec hexagon model" ELSE "ok", <<>>, <<>>, 0)

\* what a caller passes to SetInput: a name, a dim, dim extents, and a buffer
\* as large as the named tensor (one byte for a name that is no tensor's)
CallShapes(dim) == [1..dim -> Extents]

CallBuffers(name) ==
  LET index == GetInputId(name)
  IN [1..(IF index = -1 THEN 1 ELSE input_tensors_spec[index + 1].bytes) -> ByteVals]

HX_SetInput ==
  \E name \in InputNames, dim \in 0..(MaxRank + 1) :
    \E shape \in CallShapes(dim), input \in CallBuffers(name) :
      /\ H_SetInput(name, shape, input, dim)
      /\ UNCHANGED <<tvars, avars>>

HX_GetInput ==
  \E name \in InputNames : H_GetInput(name) /\ UNCHANGED <<tvars, avars>>

HX_GetOutput ==
  \E index \in -1..MaxIndex, wild \in 0..Len(output_), faults \in BOOLEAN :
    H_GetOutput(index, wild, faults) /\ UNCHANGED <<tvars, avars>>

HX_Run ==
  \E err \in {0, 1}, written \in [1..Len(output_) -> ByteVals] :
    H_Run(err, written) /\ UNCHANGED <<tvars, avars>>

NextHexagon ==
  \/ HX_SetInput
  \/ HX_GetInput
  \/ HX_GetOutput
  \/ HX_Run

\* no Treelite adapter
TreeliteAbsent ==
  /\ treelite_input = <<>> /\ treelite_output = <<>>
  /\ treelite_num_feature = 0
  /\ treelite_output_buffer_size = 0 /\ treelite_output_size = 0
  /\ t_dense = NoDense /\ t_fresh = "none" /\ t_nset = 0
  /\ t_last = [op |-> "none"]

InitHexagon == HexagonInit /\ TreeliteAbsent /\ ArtifactAbsent

\* the input side alone: SetInput and GetInput
NextHexagonInput ==
  \/ HX_SetInput
  \/ HX_GetInput

SpecHexagonInput == InitHexagon /\ [][NextHexagonInput]_vars

SpecHexagon == InitHexagon /\ [][NextHexagon]_vars

----------------------------------------------------------------------------
\* HexagonModel::InitModelArtifact.

MaxFiles == 3     \* entries of a directory listing: 0..MaxFiles

\* A file name is a sequence of pieces, each piece standing for a run of
\* characters; the empty sequence is the empty string.
ModelSuffix == <<"_hexagon_model.so">>
SkeletonName == <<"libhexagon_nn_skel.so">>

FileNames ==
  { <<"a", "_hexagon_model.so">>,
    <<"b", "_hexagon_model.so">>,
    <<"a", "_hexagon_model.so", ".bak">>,
    <<"libhexagon_nn_skel.so">>,
    <<"readme">> }

\* directories a model is loaded from: one given absolute, one relative
ModelPaths == { <<"/", "m1">>, <<"m2">> }

\* EndsWith(str, suffix): str is at least as long as suffix and its tail is suffix
EndsWith(str, suffix) ==
  /\ Len(str) >= Len(suffix)
  /\ SubSeq(str, Len(str) - Len(suffix) + 1, Len(str)) = suffix

\* realpath(path, NULL): an absolute path is itself, a relative one is
\* resolved against the working directory
realpath(path) == IF Head(path) = "/" THEN path ELSE <<"/", "cwd">> \o path

\* a directory's regular files: distinct names in any order
Listings ==
  UNION { { f \in [1..n -> FileNames] : \A i, j \in 1..n : i # j => f[i] # f[j] }
          : n \in 0..MaxFiles }

\* ListFilesInDirectory(path): one entry per regular file of the directory, each
\* the file's path, directory first. The entries are what LoadSymbols hands to
\* dlopen (line 169) and what TreelitePredictorLoad opens (dlr_treelite.cc:41,
\* for the directory "./xgboost_test" of dlr_treelite_test.cc:35), so they are
\* paths that open the file from the caller's working directory.
ListFilesInDirectory(path, names) ==
  [k \in 1..Len(names) |-> path \o <<"/">> \o names[k]]

\* the directories an adapter is constructed on, by their regular files
Directories ==
  { <<>>,
    << <<"readme">> >>,
    << <<"a", "_hexagon_model.so">> >>,
    << <<"libhexagon_nn_skel.so">> >>,
    << <<"a", "_hexagon_model.so">>, <<"libhexagon_nn_skel.so">> >>,
    << <<"libhexagon_nn_skel.so">>, <<"b", "_hexagon_model.so">> >>,
    << <<"a", "_hexagon_model.so">>, <<"b", "_hexagon_model.so">> >> }

NoArtifact == [model_file |-> <<>>, skeleton_file |-> <<>>]

\* the loop of InitModelArtifact (lines 14-25) from entry i on: the artifact,
\* and the fatal message when a second model file ends the loop
RECURSIVE ScanFiles_lastWins(_, _, _)
ScanFiles_lastWins(artifact, filenames, i) ==
  IF i > Len(filenames) THEN [artifact |-> artifact, result |-> "ok"]
  ELSE LET filename == filenames[i]
       IN IF EndsWith(filename, ModelSuffix)
          THEN ScanFiles_lastWins([artifact EXCEPT !.model_file = filename], filenames, i + 1)
          ELSE IF filename = SkeletonName
          THEN ScanFiles_lastWins([artifact EXCEPT !.skeleton_file = filename], filenames, i + 1)
          ELSE ScanFiles_lastWins(artifact, filenames, i + 1)

RECURSIVE ScanFiles(_, _, _)
ScanFiles(artifact, filenames, i) ==
  IF i > Len(filenames) THEN [artifact |-> artifact, result |-> "ok"]
  ELSE LET filename == filenames[i]
       IN IF EndsWith(filename, ModelSuffix)
          THEN IF artifact.model_file = <<>>
               THEN ScanFiles([artifact EXCEPT !.model_file = filename], filenames, i + 1)
               ELSE [artifact |-> artifact,
                     result |-> "Multiple _hexagon_model.so files under the folder"]
          ELSE IF filename = SkeletonName
          THEN ScanFiles([artifact EXCEPT !.skeleton_file = filename], filenames, i + 1)
          ELSE ScanFiles(artifact, filenames, i + 1)

\* HexagonModel::InitModelArtifact(path), lines 11-42, on a directory whose
\* listing is filenames. After a fatal error there is no adapter.
InitModelArtifact(path, filenames) ==
  LET scan == ScanFiles(NoArtifact, filenames, 1)
      artifact == scan.artifact
  IN IF scan.result # "ok"
     THEN /\ a_last' = [op |-> "InitModelArtifact", path |-> path,
                        files |-> filenames, result |-> scan.result]
          /\ model_artifact' = NoArtifact
          /\ UNCHANGED adsp_library_path
     ELSE IF artifact.model_file = <<>>
     THEN /\ a_last' = [op |-> "InitModelArtifact", path |-> path, files |-> filenames,
                        result |-> "No _hexagon_model.so file found under folder"]
          /\ model_artifact' = NoArtifact
          /\ UNCHANGED adsp_library_path
     ELSE /\ adsp_library_path' = IF artifact.skeleton_file = <<>>
                                  THEN adsp_library_path
                                  ELSE realpath(path)
          /\ model_artifact' = artifact
          /\ a_last' = [op |-> "InitModelArtifact", path |-> path,
                        files |-> filenames, result |-> "ok"]

A_Construct ==
  \E path \in ModelPaths, names \in Listings :
    /\ InitModelArtifact(path, ListFilesInDirectory(path, names))
    /\ UNCHANGED <<tvars, hvars>>

NextArtifact == A_Construct

InitArtifact ==
  /\ model_artifact = NoArtifact
  /\ adsp_library_path = <<>>
  /\ a_last = [op |-> "none", path |-> <<>>, files |-> <<>>, result |-> "ok"]
  /\ TreeliteAbsent /\ HexagonAbsent

SpecArtifact == InitArtifact /\ [][NextArtifact]_vars

----------------------------------------------------------------------------
\* TreeliteModel::InitModelArtifact.

\* LIBEXT and LIBDLR of line 13: the platform's library suffix and the reserved
\* runtime library's name
LIBEXT == <<".so">>
LIBDLR == <<"libdlr", ".so">>
VersionJson == <<"version.json">>

TreeliteFileNames ==
  { <<"m", ".so">>, <<"n", ".so">>, <<"libdlr", ".so">>, <<"version.json">>, <<"readme">> }

\* a directory's regular files: distinct names in any order
TreeliteListings ==
  UNION { { f \in [1..n -> TreeliteFileNames] : \A i, j \in 1..n : i # j => f[i] # f[j] }
          : n \in 0..MaxFiles }

\* ListFilesInDirectories(paths): the listings of the directories, in order
RECURSIVE ListFilesInDirectories(_, _)
ListFilesInDirectories(paths, contents) ==
  IF paths = <<>> THEN <<>>
  ELSE ListFilesInDirectory(Head(paths), Head(contents))
         \o ListFilesInDirectories(Tail(paths), Tail(contents))

NoTreeliteArtifact == [model_lib |-> <<>>, ver_json |-> <<>>]

\* the loop of TreeliteModel::InitModelArtifact (lines 12-18) from entry i on
RECURSIVE TreeliteScanFiles(_, _, _)
TreeliteScanFiles(artifact, filenames, i) ==
  IF i > Len(filenames) THEN artifact
  ELSE LET filename == filenames[i]
       IN IF filename # LIBDLR /\ EndsWith(filename, LIBEXT)
          THEN TreeliteScanFiles([artifact EXCEPT !.model_lib = filename], filenames, i + 1)
          ELSE IF filename = VersionJson
          THEN TreeliteScanFiles([artifact EXCEPT !.ver_json = filename], filenames, i + 1)
          ELSE TreeliteScanFiles(artifact, filenames, i + 1)

\* TreeliteModel::InitModelArtifact(paths), lines 9-28, on directories whose
\* regular files are `contents`. After the fatal error there is no adapter.
TreeliteInitModelArtifact(paths, contents) ==
  LET filenames == ListFilesInDirectories(paths, contents)
      artifact == TreeliteScanFiles(NoTreeliteArtifact, filenames, 1)
      seen == [op |-> "TreeliteInitModelArtifact", path |-> paths, contents |-> contents,
               files |-> filenames, result |-> "ok"]
  IN /\ UNCHANGED adsp_library_path
     /\ IF artifact.model_lib = <<>>
        THEN /\ model_artifact' = NoTreeliteArtifact
             /\ a_last' = [seen EXCEPT !.result = "No valid Treelite model files found"]
        ELSE /\ model_artifact' = artifact
             /\ a_last' = [seen EXCEPT !.result = "ok"]

\* the directory lists a Treelite model is loaded from
TreelitePaths == { << <<"d1">> >>, << <<"d1">>, <<"d2">> >> }

\* what the listed directories hold: any listing for the first directory, at
\* most one file for a second
TreeliteContents(paths) ==
  IF Len(paths) = 1
  THEN { <<first>> : first \in TreeliteListings }
  ELSE { <<first, rest>> : first \in TreeliteListings,
                           rest \in {f \in TreeliteListings : Len(f) <= 1} }

TA_Construct ==
  \E paths \in TreelitePaths :
    \E contents \in TreeliteContents(paths) :
      /\ TreeliteInitModelArtifact(paths, contents)
      /\ UNCHANGED <<tvars, hvars>>

NextTreeliteArtifact == TA_Construct

InitTreeliteArtifact ==
  /\ model_artifact = NoTreeliteArtifact
  /\ adsp_library_path = <<>>
  /\ a_last = [op |-> "none", path |-> <<>>, contents |-> <<>>, files |-> <<>>, result |-> "ok"]
  /\ TreeliteAbsent /\ HexagonAbsent

SpecTreeliteArtifact == InitTreeliteArtifact /\ [][NextTreeliteArtifact]_vars

----------------------------------------------------------------------------
\* HexagonModel: construction (lines 54-65) and destruction (lines 67-79).

\* one call the adapter makes: the routine, the symbol or name it is about, its
\* integer argument and the status it returned
Call(c, sym, n, ret) == [call |-> c, sym |-> sym, n |-> n, ret |-> ret]

\* graph ids a backend hands out for a live session
GraphIds == {1, 2}

\* dlr_hexagon_input_spec / dlr_hexagon_output_spec (called at lines 118, 121):
\* past the backend's last tensor the status is nonzero
dlr_hexagon_spec(answers, id) ==
  IF id < Len(answers) THEN answers[id + 1] ELSE Answer(1, TensorSpec("", <<>>))

\* the loop of GenTensorSpec (lines 116-141) from id on; acc holds the specs and
\* names pushed and the queries made so far
RECURSIVE GenTensorSpecFrom_skip(_, _, _, _)
GenTensorSpecFrom_skip(answers, isInput, id, acc) ==
  LET ans == dlr_hexagon_spec(answers, id)
      called == [acc EXCEPT !.calls =
                   Append(@, Call(IF isInput THEN "dlr_hexagon_input_spec"
                                             ELSE "dlr_hexagon_output_spec", "", id, ans.err))]
  IN IF ans.err # 0
     THEN IF id >= Len(answers) THEN called
          ELSE GenTensorSpecFrom_skip(answers, isInput, id + 1, called)
     ELSE GenTensorSpecFrom_skip(answers, isInput, id + 1,
            [called EXCEPT !.specs = Append(@, ans.spec),
                           !.names = IF isInput THEN Append(@, ans.spec.name) ELSE @])

RECURSIVE GenTensorSpecFrom(_, _, _, _)
GenTensorSpecFrom(answers, isInput, id, acc) ==
  LET ans == dlr_hexagon_spec(answers, id)
      called == [acc EXCEPT !.calls =
                   Append(@, Call(IF isInput THEN "dlr_hexagon_input_spec"
                                             ELSE "dlr_hexagon_output_spec", "", id, ans.err))]
  IN IF ans.err # 0
     THEN called
     ELSE GenTensorSpecFrom(answers, isInput, id + 1,
            [called EXCEPT !.specs = Append(@, ans.spec),
                           !.names = IF isInput THEN Append(@, ans.spec.name) ELSE @])

\* HexagonModel::GenTensorSpec(isInput), lines 107-142
GenTensorSpec(answers, isInput) ==
  GenTensorSpecFrom(answers, isInput, 0, [specs |-> <<>>, names |-> <<>>, calls |-> <<>>])

\* HexagonModel::InitInputOutputTensorSpecs, lines 144-152
InitInputOutputTensorSpecs(in_answers, out_answers) ==
  LET ins == GenTensorSpec(in_answers, TRUE)
      outs == GenTensorSpec(out_answers, FALSE)
  IN [input_tensors_spec |-> ins.specs,
      input_names |-> ins.names,
      num_inputs |-> Len(ins.specs),
      output_tensors_spec |-> outs.specs,
      num_outputs |-> Len(outs.specs),
      calls |-> ins.calls \o outs.calls]

\* the FindSymbol calls of LoadSymbols (lines 175-186) from entry point k on;
\* `missing` is the entry point dlsym does not find ("none": all are found)
RECURSIVE FindSymbols(_, _, _)
FindSymbols(k, missing, acc) ==
  IF k > Len(EntryPoints) THEN acc
  ELSE LET found == EntryPoints[k] # missing
           called == [acc EXCEPT !.calls =
                        Append(@, Call("dlsym", EntryPoints[k], 0, IF found THEN 0 ELSE 1))]
       IN IF ~found
          THEN [called EXCEPT !.result = "dlsym error"]
          ELSE FindSymbols(k + 1, missing, [called EXCEPT !.symbols = @ \cup {EntryPoints[k]}])

\* HexagonModel::LoadSymbols, lines 166-187; opens: does dlopen return a handle
LoadSymbols(opens, missing) ==
  IF ~opens
  THEN [result |-> "Model file open error", symbols |-> {},
        calls |-> <<Call("dlopen", "", 0, 1)>>]
  ELSE FindSymbols(1, missing, [result |-> "ok", symbols |-> {},
                                calls |-> <<Call("dlopen", "", 0, 0)>>])

\* HexagonModel::PrintHexagonNNLog, lines 91-97
PrintHexagonNNLog(gid, logerr) ==
  <<Call("dlr_hexagon_nn_getlog", "", gid, logerr)>> \o
    (IF logerr = 0 THEN <<Call("LOG(INFO)", "log_buf_", 0, 0)>> ELSE <<>>)

\* HexagonModel::InitHexagonModel, lines 81-89: err and gid are what
\* dlr_hexagon_model_init returns and writes to graph_id_
InitHexagonModel_noDrainOnFailure(err, gid, logerr) ==
  IF err # 0
  THEN [result |-> "dlr_hexagon_model_init failed", graph_id |-> gid,
        calls |-> <<Call("dlr_hexagon_model_init", "", 0, err)>>]
  ELSE [result |-> "ok", graph_id |-> gid,
        calls |-> <<Call("dlr_hexagon_model_init", "", 0, err)>> \o PrintHexagonNNLog(gid, logerr)]

InitHexagonModel(err, gid, logerr) ==
  IF err # 0
  THEN [result |-> "dlr_hexagon_model_init failed", graph_id |-> gid,
        calls |-> <<Call("dlr_hexagon_model_init", "", 0, err)>> \o PrintHexagonNNLog(gid, logerr)]
  ELSE [result |-> "ok", graph_id |-> gid,
        calls |-> <<Call("dlr_hexagon_model_init", "", 0, err)>> \o PrintHexagonNNLog(gid, logerr)]

\* HexagonModel::AllocateLogBuffer, lines 99-105
AllocateLogBuffer == <<Call("new char[]", "log_buf_", 0, 0)>>

\* what InitModelArtifact called, read off the state it leaves: the listing, and
\* setenv when it found a skeleton file (lines 13, 36-39)
ArtifactCalls ==
  <<Call("ListFilesInDirectory", "", 0, 0)>> \o
    (IF a_last'.result = "ok" /\ model_artifact'.skeleton_file # <<>>
     THEN <<Call("setenv", "ADSP_LIBRARY_PATH", 0, 0)>> ELSE <<>>)

\* a constructor that ended in a fatal error: the exception leaves no object
ConstructFailed(result, calls) ==
  /\ input_tensors_spec' = <<>> /\ output_tensors_spec' = <<>>
  /\ num_inputs' = 0 /\ num_outputs' = 0
  /\ input_' = <<>> /\ output_' = <<>>
  /\ graph_id' = 0
  /\ log_buf' = "null" /\ symbols' = {} /\ input_names' = <<>>
  /\ h_object' = "none"
  /\ h_calls' = calls
  /\ h_backend' = [inputs |-> <<>>, outputs |-> <<>>]
  /\ h_last' = HLast("construct", "", 0, result, <<>>, <<>>, 0)

\* HexagonModel::HexagonModel(model_path, ctx, debug_level), lines 54-65, on a
\* directory holding the files `names`. What the loader and the backend answer is
\* drawn where the constructor asks for it. The new object replaces the one the
\* model followed; ADSP_LIBRARY_PATH is the process's and stays.
H_Construct ==
  \E path \in ModelPaths, names \in Directories :
    /\ InitModelArtifact(path, ListFilesInDirectory(path, names))
    /\ IF a_last'.result # "ok"
       THEN ConstructFailed(a_last'.result, ArtifactCalls)
       ELSE \E opens \in BOOLEAN, missing \in {"none"} \cup {EntryPoints[k] : k \in DOMAIN EntryPoints} :
         LET loaded == LoadSymbols(opens, missing)
             bound == ArtifactCalls \o AllocateLogBuffer \o loaded.calls
         IN IF loaded.result # "ok"
            THEN ConstructFailed(loaded.result, bound)
            ELSE \E err \in {0, 1}, gid \in {0} \cup GraphIds, logerr \in {0, 1} :
              /\ err = 0 => gid \in GraphIds
              /\ LET inited == InitHexagonModel(err, gid, logerr)
                 IN IF inited.result # "ok"
                    THEN ConstructFailed(inited.result, bound \o inited.calls)
                    ELSE \E g \in HexagonGraphs :
                         \E stop_in \in 0..Len(g.inputs), stop_out \in 0..Len(g.outputs) :
                      LET schema == InitInputOutputTensorSpecs(AnswersOf(g.inputs, stop_in),
                                                               AnswersOf(g.outputs, stop_out))
                      IN /\ input_tensors_spec' = schema.input_tensors_spec
                         /\ output_tensors_spec' = schema.output_tensors_spec
                         /\ num_inputs' = schema.num_inputs
                         /\ num_outputs' = schema.num_outputs
                         /\ input_names' = schema.input_names
                         /\ input_' = [k \in 1..SumBytes(g.inputs) |-> 0]
                         /\ output_' = [k \in 1..SumBytes(g.outputs) |-> 0]
                         /\ graph_id' = inited.graph_id
                         /\ log_buf' = "allocated"
                         /\ symbols' = loaded.symbols
                         /\ h_object' = "ready"
                         /\ h_calls' = bound \o inited.calls \o schema.calls
                         /\ h_backend' = [inputs |-> AnswersOf(g.inputs, stop_in),
                                          outputs |-> AnswersOf(g.outputs, stop_out)]
                         /\ h_last' = HLast("construct", "", 0, "ok", <<>>, <<>>, 0)

\* the body of HexagonModel::~HexagonModel, lines 67-79, on the fields it reads:
\* what it leaves in them and what it calls; close_rc is the status the
\* backend's close routine returns
Destructor_keepGraphId(gid, syms, logbuf, in, out, close_rc) ==
  LET closing == gid # 0 /\ "dlr_hexagon_model_close" \in syms
  IN [graph_id |-> gid,
      input_ |-> IF closing THEN <<>> ELSE in,
      output_ |-> IF closing THEN <<>> ELSE out,
      log_buf |-> "null",
      calls |-> (IF closing THEN <<Call("dlr_hexagon_model_close", "", gid, close_rc)>> ELSE <<>>)
                \o (IF logbuf # "null" THEN <<Call("delete[]", "log_buf_", 0, 0)>> ELSE <<>>)]

Destructor(gid, syms, logbuf, in, out, close_rc) ==
  LET closing == gid # 0 /\ "dlr_hexagon_model_close" \in syms
  IN [graph_id |-> IF closing THEN 0 ELSE gid,
      input_ |-> IF closing THEN <<>> ELSE in,
      output_ |-> IF closing THEN <<>> ELSE out,
      log_buf |-> "null",
      calls |-> (IF closing THEN <<Call("dlr_hexagon_model_close", "", gid, close_rc)>> ELSE <<>>)
                \o (IF logbuf # "null" THEN <<Call("delete[]", "log_buf_", 0, 0)>> ELSE <<>>)]

\* the destruction logic run on the adapter object, a first or a further time
H_Destruct(close_rc) ==
  /\ h_object \in {"ready", "destroyed"}
  /\ LET d == Destructor(graph_id, symbols, log_buf, input_, output_, close_rc)
     IN /\ graph_id' = d.graph_id
        /\ input_' = d.input_
        /\ output_' = d.output_
        /\ log_buf' = d.log_buf
        /\ h_calls' = d.calls
  /\ h_object' = "destroyed"
  /\ h_last' = HLast("destruct", "", 0, "ok", <<>>, <<>>, 0)
  /\ UNCHANGED <<input_tensors_spec, output_tensors_spec, num_inputs, num_outputs,
                 symbols, input_names, h_backend>>

HL_Construct == H_Construct /\ UNCHANGED tvars

HL_Destruct == \E close_rc \in {0, 1} : H_Destruct(close_rc) /\ UNCHANGED <<tvars, avars>>

NextHexagonLife ==
  \/ HL_Construct
  \/ HL_Destruct

\* a process that has constructed no adapter yet
InitHexagonLife == InitArtifact

SpecHexagonLife == InitHexagonLife /\ [][NextHexagonLife]_vars

----------------------------------------------------------------------------
\* Claims about the Treelite adapter.

HasInput == treelite_input # <<>>
Registered == HasInput /\ treelite_input[1].handle = "registered"

\* C1: while no SetInput has succeeded, Run() ends fatally, does not invoke
\* batch prediction and leaves the output buffer as it was.
C1_RunBeforeInputFails ==
  [][(t_nset = 0 /\ T_Run) =>
       (/\ t_last'.result = "fatal"
        /\ ~t_last'.predicted
        /\ treelite_output' = treelite_output)]_vars

\* what a Run() on the current input would write
OwnPrediction ==
  LET ti == treelite_input[1]
  IN PredictBatch(ti, Resize(<<>>, ti.num_row * treelite_output_buffer_size),
                  treelite_output_size)

\* C2: after SetInput(A); Run(); SetInput(B) with no Run() since, GetOutput
\* delivers nothing of the prediction computed for A (stated for the inputs B
\* whose own prediction differs from what is delivered, so that the delivered
\* floats can only be A's).
C2_SetInputInvalidatesOutput ==
  (/\ t_last.op = "GetOutput" /\ t_last.result = "ok"
   /\ Registered /\ t_fresh = "stale"
   /\ \E i \in DOMAIN t_last.out : t_last.out[i] # OwnPrediction[i])
    => \A i \in DOMAIN t_last.out : t_last.out[i].tag # "pred"

\* the entries row i (0-based) of a dense buffer of c columns must produce: the
\* non-NaN values with their column indices, in ascending column order
RowEntries(buf, i, c) ==
  SelectSeq([j \in 1..c |-> <<j - 1, buf[i * c + j]>>], LAMBDA e : e[2] # "nan")

\* the slice [row_ptr[i], row_ptr[i+1]) of data/col_ind as <<column, value>> pairs
RowSlice(ti, i) ==
  [k \in 1..(ti.row_ptr[i + 2] - ti.row_ptr[i + 1]) |->
     <<ti.col_ind[ti.row_ptr[i + 1] + k], ti.data[ti.row_ptr[i + 1] + k]>>]

\* C3: for every accepted dense input, each row's slice of data/col_ind holds
\* exactly the row's non-NaN values with their column indices in ascending
\* column order, and the row_ptr delta is the row's count of non-NaN values.
C3_CSRHoldsNonNaN ==
  (t_last.op = "SetInput" /\ t_last.result = "ok") =>
    LET ti == treelite_input[1]
        r == t_dense.shape[1]
        c == t_dense.shape[2]
    IN /\ Len(ti.row_ptr) = r + 1
       /\ \A i \in 0..(r - 1) :
            /\ ti.row_ptr[i + 2] - ti.row_ptr[i + 1] =
                 Cardinality({j \in 1..c : t_dense.buf[i * c + j] # "nan"})
            /\ ti.row_ptr[i + 2] <= Len(ti.data)
            /\ ti.row_ptr[i + 2] <= Len(ti.col_ind)
            /\ RowSlice(ti, i) = RowEntries(t_dense.buf, i, c)

\* a 2 x 2 input with a NaN before and a NaN after a present value was accepted
C3_Witness ==
  /\ t_last.op = "SetInput" /\ t_last.result = "ok"
  /\ t_dense.shape = <<2, 2>>
  /\ t_dense.buf = <<"nan", "x", "y", "nan">>
  /\ treelite_input[1].col_ind = <<1, 0>>

\* C4: whenever a sparse input is held, len(data) = len(col_ind) = row_ptr[last],
\* len(row_ptr) = num_row + 1, row_ptr[0] = 0, row_ptr is non-decreasing, and the
\* CSR holds the cells of the latest input only.
C4_CSRInvariants ==
  HasInput =>
    LET ti == treelite_input[1]
    IN /\ Len(ti.data) = Len(ti.col_ind)
       /\ Len(ti.data) = ti.row_ptr[Len(ti.row_ptr)]
       /\ Len(ti.row_ptr) = ti.num_row + 1
       /\ ti.row_ptr[1] = 0
       /\ \A k \in 1..(Len(ti.row_ptr) - 1) : ti.row_ptr[k] <= ti.row_ptr[k + 1]
       /\ ti.num_row = t_dense.shape[1]
       /\ Len(ti.data) =
            Cardinality({k \in DOMAIN t_dense.buf : t_dense.buf[k] # "nan"})

\* a second accepted input that is smaller than a 2-row input could have left
C4_Witness ==
  /\ t_nset = 2
  /\ Registered
  /\ t_dense.shape = <<1, 2>>
  /\ treelite_input[1].row_ptr = <<0, 1>>

\* C5: GetOutputShape(0) returns [-1, W] before the first successful SetInput
\* and [n, W] after a successful SetInput of n rows; W never changes.
C5_OutputShape ==
  t_last.op = "GetOutputShape" =>
    /\ t_nset = 0 => t_last.shape_out = <<-1, treelite_output_size>>
    /\ Registered => t_last.shape_out = <<t_dense.shape[1], treelite_output_size>>

\* C6 as stated: SetInput is accepted exactly when dim = 2 and shape[1] is at
\* most the feature count (stated for the calls whose batch the backend would
\* register).
C6_AcceptedIffDimAndColumns ==
  (t_last.op = "SetInput" /\ t_last.rc = 0) =>
    (t_last.result = "ok" <=>
       (t_last.dim = 2 /\ t_last.shape[2] <= treelite_num_feature))

\* C6 amended: SetInput is accepted exactly when dim = 2, shape[1] is in
\* 0..feature count and the backend registers the sparse batch; an accepted
\* input of fewer columns has no entry for the absent columns and is
\* registered with the full feature count as its width.
C6_AcceptedIffChecksAndBackend ==
  t_last.op = "SetInput" =>
    /\ t_last.result = "ok" <=>
         (/\ t_last.dim = 2
          /\ t_last.shape[2] \in 0..treelite_num_feature
          /\ t_last.rc = 0)
    /\ t_last.result = "ok" =>
         /\ Registered
         /\ treelite_input[1].num_col = treelite_num_feature
         /\ \A k \in DOMAIN treelite_input[1].col_ind :
              treelite_input[1].col_ind[k] < t_last.shape[2]

\* an input with fewer columns than the feature count was accepted
C6_Witness ==
  /\ t_last.op = "SetInput" /\ t_last.result = "ok"
  /\ t_last.shape[2] < treelite_num_feature
  /\ t_last.shape[2] > 0
  /\ treelite_input[1].data # <<>>

\* C17: whenever GetOutput passes its precondition on a registered input, the
\* floats it copies, num_row * discovered output width of the current input,
\* are at most the floats the output buffer holds.
C17_GetOutputWithinBuffer ==
  (t_last.op = "GetOutput" /\ t_last.result = "ok" /\ Registered) =>
    /\ Len(t_last.out) = treelite_input[1].num_row * treelite_output_size
    /\ Len(t_last.out) <= Len(treelite_output)

\* the row count GetOutputShape(0) reports for an input pointer
RowsReported(ti) == IF ti # <<>> THEN ti[1].num_row ELSE -1

\* C19: a SetInput call that fails, on the dim check, on the column-count check
\* or at the backend's registration, leaves the registered input as it was:
\* GetOutputShape(0) reports the same row count as before the call and a
\* following Run() finds the input it would have found before.
C19_FailedSetInputKeepsInput ==
  [][(t_last'.op = "SetInput" /\ t_last'.result = "fatal") =>
       /\ RowsReported(treelite_input') = RowsReported(treelite_input)
       /\ treelite_input' = treelite_input
    ]_vars

\* the files of the listed directories that are candidate model libraries: named
\* other than the reserved runtime library and ending in the library suffix
RECURSIVE Flatten(_)
Flatten(contents) == IF contents = <<>> THEN <<>> ELSE Head(contents) \o Flatten(Tail(contents))

ModelLibsOf(contents) ==
  LET names == Flatten(contents)
  IN {k \in DOMAIN names : names[k] # LIBDLR /\ EndsWith(names[k], LIBEXT)}

\* C13: Treelite artifact location succeeds only when exactly one file other
\* than the reserved runtime library has the library suffix; with none it is
\* fatal, and with two or more it does not proceed with one of them.
C13_ExactlyOneModelLib ==
  a_last.op = "TreeliteInitModelArtifact" =>
    LET found == ModelLibsOf(a_last.contents)
    IN /\ a_last.result = "ok" => Cardinality(found) = 1
       /\ Cardinality(found) = 0 => a_last.result # "ok"
       /\ Cardinality(found) >= 2 => a_last.result # "ok"

----------------------------------------------------------------------------
\* Claims about the Hexagon adapter.

\* the discovered spec of a named input (names are unique among inputs)
SpecOf(name) ==
  CHOOSE sp \in {input_tensors_spec[k] : k \in DOMAIN input_tensors_spec} : sp.name = name

Discovered(name) == \E k \in DOMAIN input_tensors_spec : input_tensors_spec[k].name = name

Mismatch(sp, shape, dim) ==
  \/ dim # sp.dim
  \/ \E i \in 1..dim : shape[i] # sp.shape[i]

\* C7: a SetInput whose dim differs from the named input's rank, or whose shape
\* differs from the discovered extent on any axis, is fatal and leaves the
\* backend input buffer unchanged; one with matching rank and extents copies
\* exactly the spec's byte count.
C7_SetInputRejectsMismatch ==
  [][\A name \in {n \in InputNames : Discovered(n) /\ h_last'.name = n},
        dim \in 0..(MaxRank + 1) :
       \A shape \in CallShapes(dim), input \in CallBuffers(name) :
         H_SetInput(name, shape, input, dim) =>
           LET sp == SpecOf(name)
           IN IF Mismatch(sp, shape, dim)
              THEN /\ Fatal(h_last'.result)
                   /\ h_last'.copied = 0
                   /\ input_' = input_
              ELSE /\ h_last'.result = "ok"
                   /\ h_last'.copied = sp.bytes
                   /\ SubSeq(input_', 1, sp.bytes) = input
                   /\ \A k \in (sp.bytes + 1)..Len(input_) : input_'[k] = input_[k]
    ]_vars

\* a call of the right rank was rejected for its shape while the buffer held
\* data of an earlier call
C7_Witness ==
  /\ h_last.op = "SetInput"
  /\ h_last.result = "Incorrect input shape"
  /\ \E k \in DOMAIN input_ : input_[k] = 1

\* C8: a successful SetInput(name, shape, buf) followed immediately by
\* GetInput(name, out) yields out = buf.
C8_RoundTrip ==
  [][(/\ h_last.op = "SetInput" /\ h_last.result = "ok"
      /\ \E name \in InputNames : name = h_last.name /\ H_GetInput(name))
       => (h_last'.result = "ok" /\ h_last'.out = h_last.buf)]_vars

\* a GetInput right after a successful SetInput of the same name returned a
\* buffer that is not the initial one
C8_Witness ==
  /\ h_last.op = "GetInput"
  /\ h_last.follows_set
  /\ h_last.result = "ok"
  /\ h_last.copied = 2
  /\ h_last.out = <<1, 0>>

\* the bytes GetInput would deliver for a spec from a backend input buffer
Delivered(buf, sp) == memcpy(Uninit(sp.bytes), buf, sp.bytes)

\* the bytes of output tensor number index (0-based) in the backend's output
\* buffer, the tensors lying one after the other in spec order
OwnOutput(index) ==
  LET off == SumBytes(SubSeq(output_tensors_spec, 1, index))
  IN SubSeq(output_, off + 1, off + output_tensors_spec[index + 1].bytes)

\* C18: SetInput on one input leaves the data set for another input unchanged:
\* after SetInput(a, bufA); SetInput(b, bufB) with b # a, GetInput(a, out) would
\* yield out = bufA; and GetOutput(i) reads the bytes of output tensor i.
C18_FramePerTensor ==
  [][/\ (/\ h_last.op = "SetInput" /\ h_last.result = "ok"
         /\ h_last'.op = "SetInput" /\ h_last'.result = "ok"
         /\ h_last'.name # h_last.name)
          => Delivered(input_', SpecOf(h_last.name)) = h_last.buf
     /\ (/\ h_last'.op = "GetOutput" /\ h_last'.result = "ok"
         /\ h_last'.index \in 0..(num_outputs - 1))
          => h_last'.out = OwnOutput(h_last'.index)
    ]_vars

\* C10: GetOutput with an index outside [0, number of output specs) is fatal
\* and copies nothing; with an index inside it copies the byte count of
\* output spec number index.
C10_GetOutputBounds ==
  h_last.op = "GetOutput" =>
    IF h_last.index \in 0..(num_outputs - 1)
    THEN h_last.result = "ok" /\ h_last.copied = output_tensors_spec[h_last.index + 1].bytes
    ELSE Fatal(h_last.result) /\ h_last.copied = 0

----------------------------------------------------------------------------
\* Claims about Hexagon construction and destruction.

Constructed == h_last.op = "construct" /\ h_last.result = "ok"

\* the first id the backend answers with a nonzero status
FirstStop(answers) ==
  CHOOSE k \in 0..Len(answers) :
    /\ k < Len(answers) => answers[k + 1].err # 0
    /\ \A i \in 1..k : answers[i].err = 0

\* the queries of one routine among the calls, in call order
QueriesOf(calls, routine) == SelectSeq(calls, LAMBDA c : c.call = routine)

\* C11: for a backend answering status 0 for ids 0..k-1 and nonzero for id k,
\* discovery queries exactly the ids 0..k in ascending order and stops, records
\* the k specs in query order, and the input count is k when construction
\* returns; the same for outputs; the input name list mirrors the input specs.
C11_SchemaDiscovery ==
  Constructed =>
    LET ki == FirstStop(h_backend.inputs)
        ko == FirstStop(h_backend.outputs)
        qi == QueriesOf(h_calls, "dlr_hexagon_input_spec")
        qo == QueriesOf(h_calls, "dlr_hexagon_output_spec")
    IN /\ [i \in DOMAIN qi |-> qi[i].n] = [i \in 1..(ki + 1) |-> i - 1]
       /\ [i \in DOMAIN qo |-> qo[i].n] = [i \in 1..(ko + 1) |-> i - 1]
       /\ input_tensors_spec = [i \in 1..ki |-> h_backend.inputs[i].spec]
       /\ output_tensors_spec = [i \in 1..ko |-> h_backend.outputs[i].spec]
       /\ num_inputs = ki
       /\ num_outputs = ko
       /\ input_names = [i \in 1..ki |-> h_backend.inputs[i].spec.name]

\* a backend that stops at input id 1 although it holds a further input, and
\* answers its one output
C11_Witness ==
  /\ Constructed
  /\ Len(h_backend.inputs) = 2
  /\ FirstStop(h_backend.inputs) = 1
  /\ num_inputs = 1
  /\ num_outputs = 1
  /\ input_names = <<"a">>
  /\ Len(QueriesOf(h_calls, "dlr_hexagon_input_spec")) = 2

\* C12: every nonzero status returned by the backend's init, exec or close
\* entry point is a fatal error: a construction or destruction in which init
\* or close returned nonzero ends fatally, and so does a Run() whose exec
\* returned nonzero.
C12_NonzeroStatusIsFatal ==
  [][/\ \A err \in {0, 1}, written \in [1..Len(output_) -> ByteVals] :
          (h_object = "ready" /\ H_Run(err, written) /\ err # 0) => Fatal(h_last'.result)
     /\ h_last'.op \in {"construct", "destruct"} =>
          \A k \in DOMAIN h_calls' :
            (/\ h_calls'[k].call \in {"dlr_hexagon_model_init", "dlr_hexagon_model_close"}
             /\ h_calls'[k].ret # 0) => Fatal(h_last'.result)
    ]_vars

\* C14: destruction invokes the backend close routine, with the graph id,
\* exactly when the graph id is nonzero, and only on an adapter whose init
\* succeeded (a construction never calls close); after it the graph id is 0, the
\* buffer references and the log buffer reference are cleared and the log buffer
\* was released exactly if it was held; run a second time it calls nothing.
C14_DestructionClosesOnce ==
  [][/\ (\E close_rc \in {0, 1} : H_Destruct(close_rc)) =>
          LET closes == QueriesOf(h_calls', "dlr_hexagon_model_close")
              frees == QueriesOf(h_calls', "delete[]")
          IN /\ Len(closes) = (IF graph_id # 0 THEN 1 ELSE 0)
             /\ \A k \in DOMAIN closes : closes[k].n = graph_id
             /\ Len(frees) = (IF log_buf # "null" THEN 1 ELSE 0)
             /\ Len(h_calls') = Len(closes) + Len(frees)
             /\ closes # <<>> => h_calls'[1] = closes[1]
             /\ graph_id' = 0
             /\ input_' = <<>> /\ output_' = <<>>
             /\ log_buf' = "null"
             /\ h_object = "destroyed" => h_calls' = <<>>
     /\ h_last'.op = "construct" =>
          /\ QueriesOf(h_calls', "dlr_hexagon_model_close") = <<>>
          /\ h_object' = "ready" =>
               /\ graph_id' # 0
               /\ \E k \in DOMAIN h_calls' :
                    h_calls'[k].call = "dlr_hexagon_model_init" /\ h_calls'[k].ret = 0
    ]_vars

\* the destruction logic ran a second time on an adapter whose session it had
\* closed, and called nothing
C14_Witness ==
  /\ h_last.op = "destruct"
  /\ h_object = "destroyed"
  /\ h_calls = <<>>
  /\ graph_id = 0
  /\ log_buf = "null"

\* the construction stage a call belongs to: 1 artifact location, 2 symbol
\* binding, 3 session init with its log drain, 4 schema discovery
StageOf(c) ==
  IF c.call \in {"ListFilesInDirectory", "setenv", "new char[]"} THEN 1
  ELSE IF c.call \in {"dlopen", "dlsym"} THEN 2
  ELSE IF c.call \in {"dlr_hexagon_model_init", "dlr_hexagon_nn_getlog", "LOG(INFO)"} THEN 3
  ELSE IF c.call \in {"dlr_hexagon_input_spec", "dlr_hexagon_output_spec"} THEN 4
  ELSE 5

\* C15: a construction runs artifact location, symbol binding, session init and
\* schema discovery once each in that order; a failing stage is fatal and no
\* later stage runs (init is called only after all six entry points resolved,
\* schema discovery only after init returned 0); and every init call is
\* immediately followed by the drain of the backend log, whatever init returned.
C15_ConstructionStages ==
  h_last.op = "construct" =>
    LET inits == QueriesOf(h_calls, "dlr_hexagon_model_init")
        resolved == {h_calls[k].sym : k \in {i \in DOMAIN h_calls :
                                               h_calls[i].call = "dlsym" /\ h_calls[i].ret = 0}}
    IN /\ \A i, j \in DOMAIN h_calls : i < j => StageOf(h_calls[i]) <= StageOf(h_calls[j])
       /\ \A k \in DOMAIN h_calls : StageOf(h_calls[k]) \in 1..4
       /\ Len(QueriesOf(h_calls, "ListFilesInDirectory")) = 1
       /\ Len(QueriesOf(h_calls, "dlopen")) <= 1
       /\ Len(QueriesOf(h_calls, "dlsym")) <= Len(EntryPoints)
       /\ Len(inits) <= 1
       \* a failing stage is fatal, and a fatal construction leaves no adapter
       /\ (\E k \in DOMAIN h_calls :
             /\ h_calls[k].call \in {"dlopen", "dlsym", "dlr_hexagon_model_init"}
             /\ h_calls[k].ret # 0) => Fatal(h_last.result)
       /\ a_last.result # "ok" => Fatal(h_last.result)
       /\ Fatal(h_last.result) <=> h_object = "none"
       \* no later stage after a failing one
       /\ a_last.result # "ok" => \A k \in DOMAIN h_calls : StageOf(h_calls[k]) = 1
       /\ inits # <<>> => resolved = {EntryPoints[k] : k \in DOMAIN EntryPoints}
       /\ (\E k \in DOMAIN h_calls : StageOf(h_calls[k]) = 4) =>
            (inits # <<>> /\ inits[1].ret = 0)
       \* a construction that returns has run all four stages
       /\ h_last.result = "ok" =>
            /\ inits # <<>>
            /\ QueriesOf(h_calls, "dlr_hexagon_input_spec") # <<>>
            /\ QueriesOf(h_calls, "dlr_hexagon_output_spec") # <<>>
       \* the log drain right after init
       /\ \A k \in DOMAIN h_calls :
            h_calls[k].call = "dlr_hexagon_model_init" =>
              /\ k < Len(h_calls)
              /\ h_calls[k + 1].call = "dlr_hexagon_nn_getlog"

\* init failed, and the log was drained before the fatal error ended the
\* construction
C15_Witness ==
  /\ h_last.op = "construct"
  /\ h_last.result = "dlr_hexagon_model_init failed"
  /\ h_calls[Len(h_calls)].call = "dlr_hexagon_nn_getlog"
  /\ h_calls[Len(h_calls) - 1].call = "dlr_hexagon_model_init"
  /\ h_calls[Len(h_calls) - 1].ret # 0

\* the directory of a construction holds a file named libhexagon_nn_skel.so
HoldsSkeleton(seen) ==
  \E k \in DOMAIN seen.files : seen.files[k] = seen.path \o <<"/">> \o SkeletonName

\* position of the first call of a routine among the calls, 0 when there is none
FirstCall(calls, routine) ==
  IF \E k \in DOMAIN calls : calls[k].call = routine
  THEN CHOOSE k \in DOMAIN calls :
         /\ calls[k].call = routine
         /\ \A i \in 1..(k - 1) : calls[i].call # routine
  ELSE 0

\* C16: a construction (one whose artifact location succeeded) writes
\* ADSP_LIBRARY_PATH exactly when its directory holds the skeleton library, to
\* the directory's absolute path and before init is called; without a skeleton
\* file it leaves the variable as it was, so that the variable is the directory
\* of the last construction that found one.
C16_AdspLibraryPath ==
  [][(h_last'.op = "construct" /\ a_last'.result = "ok") =>
       IF HoldsSkeleton(a_last')
       THEN /\ adsp_library_path' = realpath(a_last'.path)
            /\ FirstCall(h_calls', "setenv") > 0
            /\ FirstCall(h_calls', "dlr_hexagon_model_init") > 0 =>
                 FirstCall(h_calls', "setenv") < FirstCall(h_calls', "dlr_hexagon_model_init")
       ELSE /\ adsp_library_path' = adsp_library_path
            /\ FirstCall(h_calls', "setenv") = 0
    ]_vars

----------------------------------------------------------------------------
\* Claims about Hexagon artifact location.

\* positions of the listing whose name ends in "_hexagon_model.so"
ModelFilesOf(files) == {k \in DOMAIN files : EndsWith(files[k], ModelSuffix)}

\* C9: artifact location succeeds exactly when one and only one listed name
\* ends in "_hexagon_model.so", and then model_file is that name; with none or
\* with two or more it is fatal, whatever the order of the listing and whether
\* or not the skeleton file is listed.
C9_ExactlyOneModelFile ==
  a_last.op = "InitModelArtifact" =>
    LET found == ModelFilesOf(a_last.files)
    IN /\ a_last.result = "ok" <=> Cardinality(found) = 1
       /\ a_last.result = "ok" =>
            \A k \in found : model_artifact.model_file = a_last.files[k]
       /\ Cardinality(found) = 0 =>
            a_last.result = "No _hexagon_model.so file found under folder"
       /\ Cardinality(found) >= 2 =>
            a_last.result = "Multiple _hexagon_model.so files under the folder"
       /\ a_last.result # "ok" => model_artifact = NoArtifact

\* the one model file was found behind the skeleton file and a near-miss name
C9_Witness ==
  /\ a_last.op = "InitModelArtifact"
  /\ a_last.result = "ok"
  /\ a_last.path = <<"m2">>
  /\ a_last.files = << <<"m2", "/", "libhexagon_nn_skel.so">>,
                       <<"m2", "/", "a", "_hexagon_model.so", ".bak">>,
                       <<"m2", "/", "b", "_hexagon_model.so">> >>
  /\ model_artifact.model_file = <<"m2", "/", "b", "_hexagon_model.so">>

====
